---- MODULE Spec2Model ----
(***************************************************************************)
(* The Meshy text-to-3D relay of src/server.js: four Express handlers      *)
(* (POST /api/preview, POST /api/refine, GET /api/task/:taskId,            *)
(* GET /api/download/:taskId), each a linear sequence of steps separated   *)
(* by awaits on the upstream API.  Requests run concurrently and share no  *)
(* state; the upstream is the environment and answers nondeterministically.*)
(***************************************************************************)
EXTENDS Integers, Sequences, FiniteSets, TLC

\* Number of requests that may be in flight at once.
NumRequests == 2
\* Largest number of chunks the upstream binary stream produces.
MaxChunks == 2

Requests == 1..NumRequests

(***************************************************************************)
(* JavaScript values.  A primitive is a record of its type and its text,   *)
(* an object a record t |-> "object" plus its own properties.              *)
(***************************************************************************)
Undefined == [t |-> "undefined", v |-> ""]
Null == [t |-> "null", v |-> ""]
Bool(b) == [t |-> "boolean", v |-> IF b THEN "true" ELSE "false"]
Num(s) == [t |-> "number", v |-> s]
Str(s) == [t |-> "string", v |-> s]

\* ToBoolean: the falsy values are undefined, null, false, 0, NaN and "".
Truthy(x) ==
  ~ \/ x.t \in {"undefined", "null"}
    \/ (x.t = "boolean" /\ x.v = "false")
    \/ (x.t = "number" /\ x.v \in {"0", "NaN"})
    \/ (x.t = "string" /\ x.v = "")

\* a || b
Or(a, b) == IF Truthy(a) THEN a ELSE b

\* o.k for an object o: undefined when o has no own property k.
Get(o, k) == IF k \in DOMAIN o THEN o[k] ELSE Undefined

\* o?.k
OptGet(o, k) == IF o.t \in {"undefined", "null"} THEN Undefined ELSE Get(o, k)

(***************************************************************************)
(* The upstream API                                                        *)
(***************************************************************************)
ApiUrl == "https://api.meshy.ai/openapi/v2/text-to-3d"
GlbUrl == "https://assets.meshy.ai/model.glb"

\* response.ok of node-fetch: the status is in 200..299.
Ok(status) == status >= 200 /\ status <= 299

\* Bodies the upstream sends with a non-success status.
ErrorTexts == {"{\"message\":\"Invalid API key\"}", "Not Found"}
ErrorStatuses == {404, 429}

\* Bodies the upstream sends with a success status to a create-task call.
HandleTexts ==
  {"{\"result\":\"task-1\"}", "{ \"result\" : \"task-1\" }", "<html>Bad Gateway</html>"}

\* Bodies the upstream sends with a success status to a get-task call.
TaskTexts ==
  {"{\"status\":\"SUCCEEDED\",\"model_urls\":{\"glb\":\"https://assets.meshy.ai/model.glb\"}}",
   "{\"status\":\"SUCCEEDED\",\"model_urls\":{\"glb\":\"\"}}",
   "{\"status\":\"SUCCEEDED\",\"model_urls\":{}}",
   "{\"status\":\"SUCCEEDED\"}",
   "{\"status\":\"SUCCEEDED\",\"model_urls\":null}",
   "{\"status\":\"PENDING\"}",
   "{\"status\":\"FAILED\",\"model_urls\":{\"glb\":\"https://assets.meshy.ai/model.glb\"}}",
   "{\"status\":\"succeeded\",\"model_urls\":{\"glb\":\"https://assets.meshy.ai/model.glb\"}}",
   "{\"model_urls\":{\"glb\":\"https://assets.meshy.ai/model.glb\"}}",
   "null",
   "<html>Bad Gateway</html>"}

Threw(m) == [ok |-> FALSE, message |-> m]
Returned(x) == [ok |-> TRUE, value |-> x]

\* response.json(): the parsed value of a body text, or a thrown error.
JsonParse(text) ==
  CASE text \in {"{\"result\":\"task-1\"}", "{ \"result\" : \"task-1\" }"} ->
         Returned([t |-> "object", result |-> Str("task-1")])
    [] text = "{\"status\":\"SUCCEEDED\",\"model_urls\":{\"glb\":\"https://assets.meshy.ai/model.glb\"}}" ->
         Returned([t |-> "object", status |-> Str("SUCCEEDED"),
                   model_urls |-> [t |-> "object", glb |-> Str(GlbUrl)]])
    [] text = "{\"status\":\"SUCCEEDED\",\"model_urls\":{\"glb\":\"\"}}" ->
         Returned([t |-> "object", status |-> Str("SUCCEEDED"),
                   model_urls |-> [t |-> "object", glb |-> Str("")]])
    [] text = "{\"status\":\"SUCCEEDED\",\"model_urls\":{}}" ->
         Returned([t |-> "object", status |-> Str("SUCCEEDED"),
                   model_urls |-> [t |-> "object"]])
    [] text = "{\"status\":\"SUCCEEDED\"}" ->
         Returned([t |-> "object", status |-> Str("SUCCEEDED")])
    [] text = "{\"status\":\"SUCCEEDED\",\"model_urls\":null}" ->
         Returned([t |-> "object", status |-> Str("SUCCEEDED"), model_urls |-> Null])
    [] text = "{\"status\":\"PENDING\"}" ->
         Returned([t |-> "object", status |-> Str("PENDING")])
    [] text = "{\"status\":\"FAILED\",\"model_urls\":{\"glb\":\"https://assets.meshy.ai/model.glb\"}}" ->
         Returned([t |-> "object", status |-> Str("FAILED"),
                   model_urls |-> [t |-> "object", glb |-> Str(GlbUrl)]])
    [] text = "{\"status\":\"succeeded\",\"model_urls\":{\"glb\":\"https://assets.meshy.ai/model.glb\"}}" ->
         Returned([t |-> "object", status |-> Str("succeeded"),
                   model_urls |-> [t |-> "object", glb |-> Str(GlbUrl)]])
    [] text = "{\"model_urls\":{\"glb\":\"https://assets.meshy.ai/model.glb\"}}" ->
         Returned([t |-> "object",
                   model_urls |-> [t |-> "object", glb |-> Str(GlbUrl)]])
    [] text = "null" -> Returned(Null)
    [] OTHER -> Threw("invalid json response body")

\* Messages of the errors an outbound call may raise.
FetchErrors == {"connect ECONNREFUSED", "socket hang up"}
BodyErrors == {"Premature close"}

(***************************************************************************)
(* Request inputs and upstream answers: a universe U names the sets the    *)
(* requests and the upstream's answers are drawn from.                     *)
(***************************************************************************)
PromptVals == {Undefined, Null, Str(""), Num("0"), Bool(FALSE), Str("a red chair")}
StyleVals == {Undefined, Str(""), Str("sculpture")}
RemeshVals ==
  {Undefined, Null, Bool(FALSE), Bool(TRUE), Num("0"), Str(""), Str("false")}
PreviewBodies ==
  [prompt : PromptVals, art_style : StyleVals, should_remesh : RemeshVals]

PreviewIdVals == {Undefined, Null, Str(""), Str("pv-1"), Str("pv-2")}
PbrVals == {Undefined, Null, Bool(TRUE), Bool(FALSE), Str("true"), Num("1")}
RefineBodies == [preview_task_id : PreviewIdVals, enable_pbr : PbrVals]

TaskIds == {"t1", "t2"}
Chunks == {"a", "b"}

\* Every input and every answer: one request against the upstream.
Full ==
  [previewBodies |-> PreviewBodies, refineBodies |-> RefineBodies,
   taskIds |-> TaskIds, handleTexts |-> HandleTexts, taskTexts |-> TaskTexts,
   errorStatuses |-> ErrorStatuses, errorTexts |-> ErrorTexts,
   fetchErrors |-> FetchErrors, bodyErrors |-> BodyErrors, chunks |-> Chunks]

\* One input per branch of each handler: concurrent requests.
Few ==
  [previewBodies |-> {[prompt |-> Undefined, art_style |-> Undefined,
                       should_remesh |-> Undefined]},
   refineBodies |-> {[preview_task_id |-> Str("pv-1"), enable_pbr |-> Bool(TRUE)],
                     [preview_task_id |-> Undefined, enable_pbr |-> Undefined]},
   taskIds |-> {"t1"},
   handleTexts |-> {"{\"result\":\"task-1\"}"},
   taskTexts |-> {"{\"status\":\"SUCCEEDED\",\"model_urls\":{\"glb\":\"https://assets.meshy.ai/model.glb\"}}",
                  "{\"status\":\"SUCCEEDED\"}",
                  "{\"status\":\"PENDING\"}"},
   errorStatuses |-> {404}, errorTexts |-> {"Not Found"},
   fetchErrors |-> {"socket hang up"}, bodyErrors |-> BodyErrors, chunks |-> {"a"}]

\* A response of the upstream: its status and its body text, or the error that
\* reading its body raises.
Response(status, text, error) ==
  [kind |-> "response", status |-> status, text |-> text, error |-> error]

\* An error raised by fetch in place of a response.
Raised(msg) == [kind |-> "throw", status |-> 0, text |-> "", error |-> msg]

\* The responses the upstream may give to a call whose success bodies are okTexts.
UpstreamResponses(U, okTexts) ==
  {Response(200, x, "") : x \in okTexts}
  \cup {Response(s, x, "") : s \in U.errorStatuses, x \in U.errorTexts}
  \cup {Response(s, "", m) : s \in {200} \cup U.errorStatuses, m \in U.bodyErrors}

(***************************************************************************)
(* State                                                                   *)
(***************************************************************************)
VARIABLES
  pc,         \* where each request's handler stands
  op,         \* the route the request came in on
  reqBody,    \* req.body
  taskId,     \* req.params.taskId
  calls,      \* the upstream calls the handler has issued, in order
  replies,    \* what the upstream answered to each call, in order
  res,        \* the response sent to the caller
  produced,   \* the chunks the upstream binary stream has produced
  buffer,     \* chunks produced and not yet written to the caller
  delivered   \* the chunks written to the caller

vars == <<pc, op, reqBody, taskId, calls, replies, res, produced, buffer, delivered>>

NoResponse ==
  [status |-> 0, type |-> "none", contentType |-> "", contentDisposition |-> "",
   json |-> Undefined, ended |-> FALSE]

Init ==
  /\ pc = [r \in Requests |-> "idle"]
  /\ op = [r \in Requests |-> "none"]
  /\ reqBody = [r \in Requests |-> Undefined]
  /\ taskId = [r \in Requests |-> ""]
  /\ calls = [r \in Requests |-> <<>>]
  /\ replies = [r \in Requests |-> <<>>]
  /\ res = [r \in Requests |-> NoResponse]
  /\ produced = [r \in Requests |-> <<>>]
  /\ buffer = [r \in Requests |-> <<>>]
  /\ delivered = [r \in Requests |-> <<>>]

\* res.status(status).json(value)
ResJson(status, value) ==
  [status |-> status, type |-> "json", contentType |-> "application/json",
   contentDisposition |-> "", json |-> value, ended |-> TRUE]

ErrorObj(msg) == [t |-> "object", error |-> msg]

LastReply(r) == replies[r][Len(replies[r])]

\* The catch block answering with a fixed text instead of err.message.
CatchFixedMessage(r, msg) ==
  /\ res' = [res EXCEPT ![r] = ResJson(500, ErrorObj("Internal Server Error"))]
  /\ pc' = [pc EXCEPT ![r] = "done"]

\* The catch block of a handler: res.status(500).json({ error: err.message })
Catch(r, msg) ==
  /\ res' = [res EXCEPT ![r] = ResJson(500, ErrorObj(msg))]
  /\ pc' = [pc EXCEPT ![r] = "done"]

\* The upstream's body relayed under a fixed 500 instead of response.status.
RelayErrorAs500(r, response) ==
  /\ res' = [res EXCEPT ![r] = ResJson(500, ErrorObj(response.text))]
  /\ pc' = [pc EXCEPT ![r] = "done"]

\* return res.status(response.status).json({ error: err }), err the body text
RelayError(r, response) ==
  /\ res' = [res EXCEPT ![r] = ResJson(response.status, ErrorObj(response.text))]
  /\ pc' = [pc EXCEPT ![r] = "done"]

\* fetch(url, options) is issued and the handler awaits it.
Fetch(r, call) ==
  /\ calls' = [calls EXCEPT ![r] = Append(@, call)]
  /\ pc' = [pc EXCEPT ![r] = "fetch"]

\* A handler that issues its call again when fetch raises.
FetchRaisesRetry(r, U) ==
  /\ pc[r] = "fetch"
  /\ Len(calls[r]) < 3
  /\ \E m \in U.fetchErrors :
       /\ replies' = [replies EXCEPT ![r] = Append(@, Raised(m))]
       /\ calls' = [calls EXCEPT ![r] = Append(@, calls[r][Len(calls[r])])]
  /\ UNCHANGED <<pc, op, reqBody, taskId, res, produced, buffer, delivered>>

\* await fetch(...) raises: the catch block answers.
FetchRaises(r, U) ==
  /\ pc[r] = "fetch"
  /\ \E m \in U.fetchErrors :
       /\ replies' = [replies EXCEPT ![r] = Append(@, Raised(m))]
       /\ Catch(r, m)
  /\ UNCHANGED <<op, reqBody, taskId, calls, produced, buffer, delivered>>

\* await fetch(...) returns a response: the handler goes on to read its body,
\* as text when !response.ok, as JSON otherwise.
FetchReturns(r, U, okTexts) ==
  /\ pc[r] = "fetch"
  /\ \E reply \in UpstreamResponses(U, okTexts) :
       /\ replies' = [replies EXCEPT ![r] = Append(@, reply)]
       /\ pc' = [pc EXCEPT ![r] = IF Ok(reply.status) THEN "json" ELSE "text"]
  /\ UNCHANGED <<op, reqBody, taskId, calls, res, produced, buffer, delivered>>

\* await response.text() returns: the upstream's status and body are relayed.
TextReturns(r) ==
  /\ pc[r] = "text"
  /\ LastReply(r).error = ""
  /\ RelayError(r, LastReply(r))
  /\ UNCHANGED <<op, reqBody, taskId, calls, replies, produced, buffer, delivered>>

\* await response.text() or await response.json() raises while reading the body.
BodyRaises(r, U) ==
  /\ pc[r] \in {"text", "json"}
  /\ LastReply(r).error \in U.bodyErrors
  /\ Catch(r, LastReply(r).error)
  /\ UNCHANGED <<op, reqBody, taskId, calls, replies, produced, buffer, delivered>>

\* const data = await response.json(); res.json(data);
JsonReturns(r) ==
  /\ pc[r] = "json"
  /\ LastReply(r).error = ""
  /\ LET data == JsonParse(LastReply(r).text)
     IN  IF data.ok
           THEN /\ res' = [res EXCEPT ![r] = ResJson(200, data.value)]
                /\ pc' = [pc EXCEPT ![r] = "done"]
           ELSE Catch(r, data.message)
  /\ UNCHANGED <<op, reqBody, taskId, calls, replies, produced, buffer, delivered>>

(***************************************************************************)
(* POST /api/preview                                                       *)
(***************************************************************************)
\* previewBody with ?? in place of ||: only undefined and null take the default.
previewBodyNullish(body) ==
  [mode |-> "preview",
   prompt |-> IF body.prompt \in {Undefined, Null} THEN Str("3D object") ELSE body.prompt,
   art_style |-> IF body.art_style \in {Undefined, Null}
                   THEN Str("realistic") ELSE body.art_style,
   should_remesh |-> Bool(body.should_remesh # Bool(FALSE))]

\* previewBody with should_remesh coerced: undefined is true, else its truthiness.
previewBodyCoerced(body) ==
  [mode |-> "preview",
   prompt |-> Or(body.prompt, Str("3D object")),
   art_style |-> Or(body.art_style, Str("realistic")),
   should_remesh |-> Bool(body.should_remesh = Undefined \/ Truthy(body.should_remesh))]

previewBody(body) ==
  [mode |-> "preview",
   prompt |-> Or(body.prompt, Str("3D object")),
   art_style |-> Or(body.art_style, Str("realistic")),
   should_remesh |-> Bool(body.should_remesh # Bool(FALSE))]

PreviewStart(r, U) ==
  /\ pc[r] = "idle"
  /\ \E body \in U.previewBodies :
       /\ op' = [op EXCEPT ![r] = "preview"]
       /\ reqBody' = [reqBody EXCEPT ![r] = body]
       /\ Fetch(r, [kind |-> "create", method |-> "POST", url |-> ApiUrl,
                    body |-> previewBody(body)])
  /\ UNCHANGED <<taskId, replies, res, produced, buffer, delivered>>

PreviewFetchRaises(r, U) == op[r] = "preview" /\ FetchRaises(r, U)
PreviewFetchReturns(r, U) == op[r] = "preview" /\ FetchReturns(r, U, U.handleTexts)
PreviewTextReturns(r) == op[r] = "preview" /\ TextReturns(r)
PreviewJsonReturns(r) == op[r] = "preview" /\ JsonReturns(r)
PreviewBodyRaises(r, U) == op[r] = "preview" /\ BodyRaises(r, U)

(***************************************************************************)
(* POST /api/refine                                                        *)
(***************************************************************************)
\* refineBody with enable_pbr coerced to its truthiness.
refineBodyCoerced(body) ==
  [mode |-> "refine",
   preview_task_id |-> body.preview_task_id,
   enable_pbr |-> Bool(Truthy(body.enable_pbr))]

refineBody(body) ==
  [mode |-> "refine",
   preview_task_id |-> body.preview_task_id,
   enable_pbr |-> Bool(body.enable_pbr = Bool(TRUE))]

\* The refine handler without its check of preview_task_id.
RefineStartUnchecked(r, U) ==
  /\ pc[r] = "idle"
  /\ \E body \in U.refineBodies :
       /\ op' = [op EXCEPT ![r] = "refine"]
       /\ reqBody' = [reqBody EXCEPT ![r] = body]
       /\ Fetch(r, [kind |-> "create", method |-> "POST", url |-> ApiUrl,
                    body |-> [mode |-> "refine", preview_task_id |-> body.preview_task_id,
                              enable_pbr |-> Bool(body.enable_pbr = Bool(TRUE))]])
  /\ UNCHANGED <<taskId, replies, res, produced, buffer, delivered>>

RefineStart(r, U) ==
  /\ pc[r] = "idle"
  /\ \E body \in U.refineBodies :
       /\ op' = [op EXCEPT ![r] = "refine"]
       /\ reqBody' = [reqBody EXCEPT ![r] = body]
       /\ IF ~Truthy(body.preview_task_id)
            THEN /\ res' = [res EXCEPT ![r] =
                              ResJson(400, ErrorObj("preview_task_id is required."))]
                 /\ pc' = [pc EXCEPT ![r] = "done"]
                 /\ UNCHANGED calls
            ELSE /\ Fetch(r, [kind |-> "create", method |-> "POST", url |-> ApiUrl,
                              body |-> refineBody(body)])
                 /\ UNCHANGED res
  /\ UNCHANGED <<taskId, replies, produced, buffer, delivered>>

RefineFetchRaises(r, U) == op[r] = "refine" /\ FetchRaises(r, U)
RefineFetchReturns(r, U) == op[r] = "refine" /\ FetchReturns(r, U, U.handleTexts)
RefineTextReturns(r) == op[r] = "refine" /\ TextReturns(r)
RefineJsonReturns(r) == op[r] = "refine" /\ JsonReturns(r)
RefineBodyRaises(r, U) == op[r] = "refine" /\ BodyRaises(r, U)

(***************************************************************************)
(* GET /api/task/:taskId                                                   *)
(***************************************************************************)
TaskStart(r, U) ==
  /\ pc[r] = "idle"
  /\ \E id \in U.taskIds :
       /\ op' = [op EXCEPT ![r] = "task"]
       /\ taskId' = [taskId EXCEPT ![r] = id]
       /\ Fetch(r, [kind |-> "read", method |-> "GET", url |-> ApiUrl \o "/" \o id])
  /\ UNCHANGED <<reqBody, replies, res, produced, buffer, delivered>>

TaskFetchRaises(r, U) == op[r] = "task" /\ FetchRaises(r, U)
TaskFetchReturns(r, U) == op[r] = "task" /\ FetchReturns(r, U, U.taskTexts)
TaskTextReturns(r) == op[r] = "task" /\ TextReturns(r)
TaskJsonReturns(r) == op[r] = "task" /\ JsonReturns(r)
TaskBodyRaises(r, U) == op[r] = "task" /\ BodyRaises(r, U)

(***************************************************************************)
(* GET /api/download/:taskId                                               *)
(***************************************************************************)
DownloadStart(r, U) ==
  /\ pc[r] = "idle"
  /\ \E id \in U.taskIds :
       /\ op' = [op EXCEPT ![r] = "download"]
       /\ taskId' = [taskId EXCEPT ![r] = id]
       /\ Fetch(r, [kind |-> "read", method |-> "GET", url |-> ApiUrl \o "/" \o id])
  /\ UNCHANGED <<reqBody, replies, res, produced, buffer, delivered>>

DownloadFetchRaises(r, U) == op[r] = "download" /\ FetchRaises(r, U)
DownloadFetchReturns(r, U) == op[r] = "download" /\ FetchReturns(r, U, U.taskTexts)
DownloadTextReturns(r) == op[r] = "download" /\ TextReturns(r)
DownloadBodyRaises(r, U) == op[r] = "download" /\ BodyRaises(r, U)

\* The status check letting a task without a status through.
NotSucceededIfPresent(taskData) ==
  Get(taskData, "status") \notin {Undefined, Str("SUCCEEDED")}

\* The glb check testing only for undefined.
NoGlbUrlUndefinedOnly(glbUrl) == glbUrl = Undefined

\* taskData.status !== 'SUCCEEDED'
NotSucceeded(taskData) == Get(taskData, "status") # Str("SUCCEEDED")

\* taskData.model_urls?.glb
GlbUrlOf(taskData) == OptGet(Get(taskData, "model_urls"), "glb")

\* !glbUrl
NoGlbUrl(glbUrl) == ~Truthy(glbUrl)

\* res.setHeader('Content-Disposition', `attachment; filename="${taskId}.glb"`)
Disposition(id) == "attachment; filename=\"" \o id \o ".glb\""

\* const taskData = await response.json(); then the status and glb checks, and
\* the fetch of the GLB.
DownloadJsonReturns(r) ==
  /\ op[r] = "download"
  /\ pc[r] = "json"
  /\ LastReply(r).error = ""
  /\ LET taskData == JsonParse(LastReply(r).text)
         glbUrl == GlbUrlOf(taskData.value)
     IN  IF ~taskData.ok
           THEN Catch(r, taskData.message) /\ UNCHANGED calls
         ELSE IF taskData.value = Null
           THEN /\ Catch(r, "Cannot read properties of null (reading 'status')")
                /\ UNCHANGED calls
         ELSE IF NotSucceeded(taskData.value)
           THEN /\ res' = [res EXCEPT ![r] =
                             ResJson(400, ErrorObj("Task is not complete or has failed."))]
                /\ pc' = [pc EXCEPT ![r] = "done"]
                /\ UNCHANGED calls
         ELSE IF NoGlbUrl(glbUrl)
           THEN /\ res' = [res EXCEPT ![r] = ResJson(404, ErrorObj("GLB URL not found."))]
                /\ pc' = [pc EXCEPT ![r] = "done"]
                /\ UNCHANGED calls
         ELSE /\ calls' = [calls EXCEPT ![r] =
                             Append(@, [kind |-> "glb", method |-> "GET", url |-> glbUrl.v])]
              /\ pc' = [pc EXCEPT ![r] = "fetchGlb"]
              /\ UNCHANGED res
  /\ UNCHANGED <<op, reqBody, taskId, replies, produced, buffer, delivered>>

\* await fetch(glbUrl) raises.
DownloadGlbRaises(r, U) ==
  /\ pc[r] = "fetchGlb"
  /\ \E m \in U.fetchErrors :
       /\ replies' = [replies EXCEPT ![r] = Append(@, Raised(m))]
       /\ Catch(r, m)
  /\ UNCHANGED <<op, reqBody, taskId, calls, produced, buffer, delivered>>

\* await fetch(glbUrl) returns: !modelResponse.ok is answered with a fixed 500,
\* otherwise the headers are set and the body is piped to the caller.
DownloadGlbReturns(r, U) ==
  /\ pc[r] = "fetchGlb"
  /\ \E s \in {200} \cup U.errorStatuses :
       /\ replies' = [replies EXCEPT ![r] =
                        Append(@, Response(s, "", ""))]
       /\ IF ~Ok(s)
            THEN /\ res' = [res EXCEPT ![r] =
                              ResJson(500, ErrorObj("Failed to download GLB file."))]
                 /\ pc' = [pc EXCEPT ![r] = "done"]
            ELSE /\ res' = [res EXCEPT ![r] =
                              [status |-> 200, type |-> "stream",
                               contentType |-> "model/gltf-binary",
                               contentDisposition |-> Disposition(taskId[r]),
                               json |-> Undefined, ended |-> FALSE]]
                 /\ pc' = [pc EXCEPT ![r] = "pipe"]
  /\ UNCHANGED <<op, reqBody, taskId, calls, produced, buffer, delivered>>

\* The upstream body stream produces a chunk.
SourceData(r, U) ==
  /\ pc[r] = "pipe"
  /\ Len(produced[r]) < MaxChunks
  /\ \E c \in U.chunks :
       /\ produced' = [produced EXCEPT ![r] = Append(@, c)]
       /\ buffer' = [buffer EXCEPT ![r] = Append(@, c)]
  /\ UNCHANGED <<pc, op, reqBody, taskId, calls, replies, res, delivered>>

\* pipe writing the newest chunk first.
PipeWriteNewest(r) ==
  /\ pc[r] \in {"pipe", "drain"}
  /\ buffer[r] # <<>>
  /\ delivered' = [delivered EXCEPT ![r] = Append(@, buffer[r][Len(buffer[r])])]
  /\ buffer' = [buffer EXCEPT ![r] = SubSeq(@, 1, Len(@) - 1)]
  /\ UNCHANGED <<pc, op, reqBody, taskId, calls, replies, res, produced>>

\* pipe: the oldest chunk read from the source is written to res.
PipeWrite(r) ==
  /\ pc[r] \in {"pipe", "drain"}
  /\ buffer[r] # <<>>
  /\ delivered' = [delivered EXCEPT ![r] = Append(@, Head(buffer[r]))]
  /\ buffer' = [buffer EXCEPT ![r] = Tail(@)]
  /\ UNCHANGED <<pc, op, reqBody, taskId, calls, replies, res, produced>>

\* The upstream body stream ends.
SourceEnd(r) ==
  /\ pc[r] = "pipe"
  /\ pc' = [pc EXCEPT ![r] = "drain"]
  /\ UNCHANGED <<op, reqBody, taskId, calls, replies, res, produced, buffer, delivered>>

\* pipe: the source has ended and every chunk is written: res.end().
PipeEnd(r) ==
  /\ pc[r] = "drain"
  /\ buffer[r] = <<>>
  /\ res' = [res EXCEPT ![r].ended = TRUE]
  /\ pc' = [pc EXCEPT ![r] = "done"]
  /\ UNCHANGED <<op, reqBody, taskId, calls, replies, produced, buffer, delivered>>

\* The upstream body stream fails: pipe stops writing and res is never ended.
SourceError(r) ==
  /\ pc[r] = "pipe"
  /\ pc' = [pc EXCEPT ![r] = "stalled"]
  /\ UNCHANGED <<op, reqBody, taskId, calls, replies, res, produced, buffer, delivered>>

(***************************************************************************)
(* Specifications                                                          *)
(***************************************************************************)
Step(r, U) ==
  \/ PreviewStart(r, U)
  \/ PreviewFetchRaises(r, U)
  \/ PreviewFetchReturns(r, U)
  \/ PreviewTextReturns(r)
  \/ PreviewJsonReturns(r)
  \/ PreviewBodyRaises(r, U)
  \/ RefineStart(r, U)
  \/ RefineFetchRaises(r, U)
  \/ RefineFetchReturns(r, U)
  \/ RefineTextReturns(r)
  \/ RefineJsonReturns(r)
  \/ RefineBodyRaises(r, U)
  \/ TaskStart(r, U)
  \/ TaskFetchRaises(r, U)
  \/ TaskFetchReturns(r, U)
  \/ TaskTextReturns(r)
  \/ TaskJsonReturns(r)
  \/ TaskBodyRaises(r, U)
  \/ DownloadStart(r, U)
  \/ DownloadFetchRaises(r, U)
  \/ DownloadFetchReturns(r, U)
  \/ DownloadTextReturns(r)
  \/ DownloadJsonReturns(r)
  \/ DownloadBodyRaises(r, U)
  \/ DownloadGlbRaises(r, U)
  \/ DownloadGlbReturns(r, U)
  \/ SourceData(r, U)
  \/ PipeWrite(r)
  \/ SourceEnd(r)
  \/ PipeEnd(r)
  \/ SourceError(r)

\* One request, every input and every upstream answer.
Next == Step(1, Full)
Spec == Init /\ [][Next]_vars

\* Concurrent requests, interleaved at their awaits.
NextConcurrent == \E r \in Requests : Step(r, Few)
SpecConcurrent == Init /\ [][NextConcurrent]_vars

(***************************************************************************)
(* Properties                                                              *)
(***************************************************************************)
\* The caller was answered with this status and this JSON error payload.
Answered(r, status, msg) ==
  /\ res[r].status = status
  /\ res[r].type = "json"
  /\ res[r].json = [t |-> "object", error |-> msg]
  /\ res[r].ended

\* An upstream response with a non-success status whose body text was read.
NonSuccess(reply) ==
  reply.kind = "response" /\ ~(reply.status \in 200..299) /\ reply.error = ""

\* The first upstream call returned 200 with this body and the handler has
\* acted on it.
ReadTask(r, texts) ==
  /\ op[r] = "download"
  /\ Len(replies[r]) >= 1
  /\ replies[r][1].kind = "response"
  /\ replies[r][1].status = 200
  /\ replies[r][1].error = ""
  /\ replies[r][1].text \in texts
  /\ pc[r] # "json"

\* C1 as stated: every upstream non-success response, of any call of any of
\* the four operations, is answered with the upstream's status and body text.
C1_RelaysEveryUpstreamError ==
  \A r \in Requests : \A i \in 1..Len(replies[r]) :
    (pc[r] = "done" /\ NonSuccess(replies[r][i])) =>
      Answered(r, replies[r][i].status, replies[r][i].text)

\* C1 amended: a non-success response to a task-create or task-read call is
\* answered with the upstream's status and body text; a non-success response
\* to the binary fetch of DownloadModel is answered with 500 and the fixed
\* message "Failed to download GLB file.".
C1_RelaysApiErrors ==
  \A r \in Requests : \A i \in 1..Len(replies[r]) :
    (pc[r] = "done" /\ NonSuccess(replies[r][i])) =>
      IF calls[r][i].kind = "glb"
        THEN Answered(r, 500, "Failed to download GLB file.")
        ELSE Answered(r, replies[r][i].status, replies[r][i].text)

C1_Witness ==
  \E r \in Requests :
    /\ op[r] = "download"
    /\ pc[r] = "done"
    /\ replies[r] = <<Response(429, "Not Found", "")>>
    /\ Answered(r, 429, "Not Found")

\* C2: a refine request whose preview_task_id is missing or empty is answered
\* 400 "preview_task_id is required." and issues no upstream call, whatever
\* enable_pbr is.
C2_MissingPreviewTaskId ==
  \A r \in Requests :
    (op[r] = "refine" /\ reqBody[r].preview_task_id \in {Undefined, Null, Str("")}) =>
      /\ pc[r] = "done"
      /\ Answered(r, 400, "preview_task_id is required.")
      /\ calls[r] = <<>>
      /\ replies[r] = <<>>

C2_Witness ==
  \E r \in Requests :
    /\ op[r] = "refine"
    /\ reqBody[r] = [preview_task_id |-> Str(""), enable_pbr |-> Bool(TRUE)]
    /\ res[r].status = 400

\* Task objects whose status is not the literal "SUCCEEDED".
NotSucceededTexts ==
  {"{\"status\":\"PENDING\"}",
   "{\"status\":\"FAILED\",\"model_urls\":{\"glb\":\"https://assets.meshy.ai/model.glb\"}}",
   "{\"status\":\"succeeded\",\"model_urls\":{\"glb\":\"https://assets.meshy.ai/model.glb\"}}",
   "{\"model_urls\":{\"glb\":\"https://assets.meshy.ai/model.glb\"}}"}

\* C3: DownloadModel for a task object whose status is not "SUCCEEDED" (or is
\* absent), with or without a glb URL, is answered 400 "Task is not complete or
\* has failed." and the binary fetch is never issued.
C3_NotSucceeded ==
  \A r \in Requests :
    ReadTask(r, NotSucceededTexts) =>
      /\ pc[r] = "done"
      /\ Answered(r, 400, "Task is not complete or has failed.")
      /\ Len(calls[r]) = 1
      /\ calls[r][1].kind = "read"

C3_Witness ==
  \E r \in Requests :
    /\ ReadTask(r, {"{\"model_urls\":{\"glb\":\"https://assets.meshy.ai/model.glb\"}}"})
    /\ res[r].status = 400

\* "SUCCEEDED" task objects without a glb URL.
NoGlbTexts ==
  {"{\"status\":\"SUCCEEDED\",\"model_urls\":{\"glb\":\"\"}}",
   "{\"status\":\"SUCCEEDED\",\"model_urls\":{}}",
   "{\"status\":\"SUCCEEDED\"}",
   "{\"status\":\"SUCCEEDED\",\"model_urls\":null}"}

\* C4: DownloadModel for a "SUCCEEDED" task whose model_urls.glb is absent
\* (model_urls missing or null, glb missing or empty) is answered 404 "GLB URL
\* not found." and the binary fetch is never issued.
C4_NoGlbUrl ==
  \A r \in Requests :
    ReadTask(r, NoGlbTexts) =>
      /\ pc[r] = "done"
      /\ Answered(r, 404, "GLB URL not found.")
      /\ Len(calls[r]) = 1
      /\ calls[r][1].kind = "read"

C4_Witness ==
  \E r \in Requests :
    /\ ReadTask(r, {"{\"status\":\"SUCCEEDED\",\"model_urls\":{\"glb\":\"\"}}"})
    /\ res[r].status = 404

\* C5: once the binary fetch of a "SUCCEEDED" task has returned a success
\* response, the answer carries Content-Type model/gltf-binary and
\* Content-Disposition attachment; filename="<taskId>.glb" for the request's own
\* taskId, the chunks written plus those in transit are the chunks the
\* upstream produced, in order, and when the answer ends the chunks written
\* are exactly the chunks produced.
C5_StreamsUpstreamBytes ==
  \A r \in Requests :
    res[r].type = "stream" =>
      /\ op[r] = "download"
      /\ res[r].contentType = "model/gltf-binary"
      /\ taskId[r] = "t1" => res[r].contentDisposition = "attachment; filename=\"t1.glb\""
      /\ taskId[r] = "t2" => res[r].contentDisposition = "attachment; filename=\"t2.glb\""
      /\ taskId[r] \in {"t1", "t2"}
      /\ delivered[r] \o buffer[r] = produced[r]
      /\ res[r].ended => delivered[r] = produced[r] /\ pc[r] = "done"

C5_Witness ==
  \E r \in Requests :
    /\ res[r].type = "stream"
    /\ res[r].ended
    /\ taskId[r] = "t2"
    /\ produced[r] = <<"a", "b">>
    /\ delivered[r] = <<"a", "b">>

\* The create-task call of a preview request.
PreviewCall(r) == calls[r][1]

\* The success relay of CreatePreviewTask: a 200 response carrying a JSON
\* body is answered 200 with that JSON value.
PreviewSuccessRelayed(r) ==
  (/\ pc[r] = "done"
   /\ replies[r][1].kind = "response"
   /\ replies[r][1].status = 200
   /\ replies[r][1].error = ""
   /\ replies[r][1].text \in {"{\"result\":\"task-1\"}", "{ \"result\" : \"task-1\" }"}) =>
     /\ res[r].status = 200
     /\ res[r].type = "json"
     /\ res[r].json = [t |-> "object", result |-> Str("task-1")]
     /\ res[r].ended

\* C6 as stated: the preview call carries mode "preview", the defaults when a
\* field is omitted and the supplied prompt and art_style otherwise, and a
\* success body is returned unchanged.
C6_SuppliedValuesPassThrough ==
  \A r \in Requests :
    op[r] = "preview" =>
      /\ Len(calls[r]) = 1
      /\ PreviewCall(r).kind = "create"
      /\ PreviewCall(r).body.mode = "preview"
      /\ PreviewCall(r).body.prompt =
           IF reqBody[r].prompt = Undefined THEN Str("3D object") ELSE reqBody[r].prompt
      /\ PreviewCall(r).body.art_style =
           IF reqBody[r].art_style = Undefined
             THEN Str("realistic") ELSE reqBody[r].art_style
      /\ reqBody[r].should_remesh = Undefined =>
           PreviewCall(r).body.should_remesh = Bool(TRUE)
      /\ PreviewSuccessRelayed(r)

\* The values JavaScript's || replaces by its right operand.
FalsyVals == {Undefined, Null, Str(""), Num("0"), Bool(FALSE)}

\* C6 amended: the preview call carries mode "preview"; prompt is "3D object"
\* and art_style is "realistic" when the field is omitted or falsy (null, "",
\* 0, false), and the supplied value otherwise; should_remesh is true when
\* omitted; a success body is returned unchanged.
C6_TruthyValuesPassThrough ==
  \A r \in Requests :
    op[r] = "preview" =>
      /\ Len(calls[r]) = 1
      /\ PreviewCall(r).kind = "create"
      /\ PreviewCall(r).body.mode = "preview"
      /\ PreviewCall(r).body.prompt =
           IF reqBody[r].prompt \in FalsyVals THEN Str("3D object") ELSE reqBody[r].prompt
      /\ PreviewCall(r).body.art_style =
           IF reqBody[r].art_style \in FalsyVals
             THEN Str("realistic") ELSE reqBody[r].art_style
      /\ reqBody[r].should_remesh = Undefined =>
           PreviewCall(r).body.should_remesh = Bool(TRUE)
      /\ PreviewSuccessRelayed(r)

C6_Witness ==
  \E r \in Requests :
    /\ op[r] = "preview"
    /\ pc[r] = "done"
    /\ reqBody[r].prompt = Str("")
    /\ reqBody[r].art_style = Str("sculpture")
    /\ PreviewCall(r).body.prompt = Str("3D object")
    /\ PreviewCall(r).body.art_style = Str("sculpture")
    /\ replies[r][1].text = "{ \"result\" : \"task-1\" }"
    /\ res[r].status = 200

\* C7: the should_remesh sent upstream is false exactly when the request's
\* should_remesh is the boolean false, and true for every other input.
C7_ShouldRemeshLiteralFalse ==
  \A r \in Requests :
    op[r] = "preview" =>
      PreviewCall(r).body.should_remesh =
        IF reqBody[r].should_remesh = Bool(FALSE) THEN Bool(FALSE) ELSE Bool(TRUE)

C7_Witness ==
  \E r \in Requests :
    /\ op[r] = "preview"
    /\ reqBody[r].should_remesh = Str("false")
    /\ PreviewCall(r).body.should_remesh = Bool(TRUE)

\* C8: a refine request with a non-empty preview_task_id issues a create call
\* with mode "refine", the preview_task_id unchanged, and enable_pbr true
\* exactly when the request's enable_pbr is the boolean true.
C8_EnablePbrLiteralTrue ==
  \A r \in Requests :
    (op[r] = "refine" /\ reqBody[r].preview_task_id \notin {Undefined, Null, Str("")}) =>
      /\ Len(calls[r]) = 1
      /\ calls[r][1].kind = "create"
      /\ calls[r][1].body.mode = "refine"
      /\ calls[r][1].body.preview_task_id = reqBody[r].preview_task_id
      /\ calls[r][1].body.enable_pbr =
           IF reqBody[r].enable_pbr = Bool(TRUE) THEN Bool(TRUE) ELSE Bool(FALSE)

C8_Witness ==
  \E r \in Requests :
    /\ op[r] = "refine"
    /\ reqBody[r] = [preview_task_id |-> Str("pv-2"), enable_pbr |-> Str("true")]
    /\ calls[r][1].body.enable_pbr = Bool(FALSE)

\* C9: when an outbound call raises instead of returning a response (fetch
\* raises, or reading the response body raises), the caller is answered 500
\* with the error's message and the handler issues no further upstream call.
C9_ExceptionIs500 ==
  \A r \in Requests : \A i \in 1..Len(replies[r]) :
    /\ replies[r][i].kind = "throw" =>
         /\ pc[r] = "done"
         /\ Answered(r, 500, replies[r][i].error)
         /\ Len(calls[r]) = i
         /\ Len(replies[r]) = i
    /\ (replies[r][i].kind = "response" /\ replies[r][i].error # "") =>
         /\ Len(calls[r]) = i
         /\ Len(replies[r]) = i
         /\ pc[r] \in {"text", "json", "done"}
         /\ pc[r] = "done" => Answered(r, 500, replies[r][i].error)

C9_Witness ==
  \E r \in Requests :
    /\ op[r] = "download"
    /\ Len(replies[r]) = 2
    /\ replies[r][2] = Raised("socket hang up")
    /\ Answered(r, 500, "socket hang up")

\* An upstream call that failed: it raised, or returned a non-success status.
Failed(reply) ==
  reply.kind = "throw" \/ reply.error # "" \/ ~(reply.status \in 200..299)

\* C10: no retries.  A preview, refine or task request issues at most one
\* upstream call and a download request at most two, the status read and then
\* the binary fetch; a call is issued only after every earlier call has
\* returned a success response; after a failed call no call follows and the
\* answer, once sent, is an error.  Checked with requests interleaved.
C10_NoRetries ==
  \A r \in Requests :
    /\ op[r] \in {"preview", "refine", "task"} => Len(calls[r]) <= 1
    /\ op[r] = "download" => Len(calls[r]) <= 2
    /\ op[r] = "none" => calls[r] = <<>>
    /\ Len(replies[r]) <= Len(calls[r])
    /\ Len(calls[r]) <= Len(replies[r]) + 1
    /\ Len(calls[r]) = 2 =>
         /\ calls[r][1].kind = "read"
         /\ calls[r][2].kind = "glb"
         /\ ~Failed(replies[r][1])
    /\ \A i \in 1..Len(replies[r]) :
         Failed(replies[r][i]) =>
           /\ Len(calls[r]) = i
           /\ pc[r] \in {"text", "json", "done"}
           /\ pc[r] = "done" => res[r].status >= 400

C10_Witness ==
  \E r, q \in Requests :
    /\ r # q
    /\ op[r] = "download"
    /\ pc[r] = "fetchGlb"
    /\ Len(calls[r]) = 2
    /\ op[q] = "task"
    /\ pc[q] = "fetch"
    /\ Len(calls[q]) = 1
    /\ Len(replies[q]) = 0
====
